---- MODULE Spec2Model ----
(***************************************************************************)
(* State-machine model of telegram_compression_bot.py: the registry of     *)
(* active compression tasks (active_tasks), the per-user pending video     *)
(* (context.user_data), the scratch files on disk, and every background    *)
(* process_compression task, one step per stretch of code between two      *)
(* awaits.  Handlers run one at a time (the Application is built without   *)
(* concurrent_updates), background tasks interleave with them and with     *)
(* each other at their awaits.                                             *)
(*                                                                         *)
(* Sizes are counted in KiB.  The /start, /help and /settings handlers     *)
(* only send text and store default_quality, which nothing else reads      *)
(* back into the registry; they are left out, and so are the reply texts   *)
(* of the handlers and the registry fields status_message_id and           *)
(* start_time, which are stored and never read.  A handler whose own       *)
(* Telegram call raises before it writes anything changes no state: a      *)
(* stuttering step.                                                        *)
(*                                                                         *)
(* A continuation that touches only the task's own locals is taken         *)
(* together with the step before it: the "Downloading" edit (line 297)     *)
(* with the registry read at line 291, and send_video (line 380) with the  *)
(* open() of the output file.  Every other await is a position (pc) of     *)
(* its own, named after the call the task is waiting for.                  *)
(***************************************************************************)
EXTENDS Integers, Sequences, FiniteSets, TLC

\* ---------------------------------------------------------------- bounds
NumUsers == 2
MaxTasks == 2
MaxTime == 1

\* ------------------------------------------------------------- constants
MAX_FILE_SIZE == 50 * 1024
PREMIUM_MAX_FILE_SIZE == 2 * 1024 * 1024
COMPRESSION_PRESETS == [low |-> [crf |-> 28], medium |-> [crf |-> 23], high |-> [crf |-> 18]]

Users == 1..NumUsers
\* Declared sizes a client can send: empty, at the limit, just over it.
FileSizes == {0, MAX_FILE_SIZE, MAX_FILE_SIZE + 1}
FileNames == {"a.mp4"}
\* callback_data is matched by ^compress_ only: any suffix can arrive.  The
\* three preset keys take the same path through the code (they differ in the
\* crf handed to ffmpeg), so one of them stands for all.
QualityInputs == {"medium", "ultra"}

VARIABLES active_tasks, user_data, tasks, files, now, cancel_seen

vars == <<active_tasks, user_data, tasks, files, now, cancel_seen>>

\* An optional value is a sequence of length 0 (None / unbound) or 1.
None == <<>>
Some(x) == <<x>>

\* ------------------------------------------------------------- helpers
is_premium(u) == FALSE

size_limit(u) == IF is_premium(u) THEN PREMIUM_MAX_FILE_SIZE ELSE MAX_FILE_SIZE

\* TooLarge with an off-by-one defect: a video one unit over the limit passes.
TooLargeOffByOne(file_size, limit) == file_size > limit + 1

TooLarge(file_size, limit) == file_size > limit

InputPath(user_id, t, file_name) == <<"input", user_id, t, file_name>>

OutputPath(user_id, t, file_name) == <<"output", user_id, t, file_name>>

DelTask(at, u) == [v \in DOMAIN at \ {u} |-> at[v]]

NewTask(u) ==
    [user |-> u, pc |-> "start", bound |-> FALSE, video_info |-> None,
     quality |-> "", input_path |-> None, output_path |-> None,
     e |-> "", reports |-> <<>>, cleanup_error |-> FALSE]

Terminal == {"Completed", "Canceled", "Failed"}

\* The stage of the job a task is running, from the task's position.
Stage(pc) ==
    CASE pc = "start" -> "Pending"
      [] pc \in {"get_file", "download"} -> "Downloading"
      [] pc \in {"edit_compressing", "encode", "encode_noinput"} -> "Encoding"
      [] pc \in {"edit_uploading", "edit_completed"} -> "Uploading"
      [] pc = "edit_canceled" -> "Canceling"
      [] pc = "edit_error" -> "Failing"
      [] OTHER -> pc

\* cancel_seen[p] observes cancel_command (under SpecObserved): the stage
\* task p was in when the first /cancel of its user was accepted while p was
\* running; it is forgotten when p ends.
SeeCancel(u) ==
    [p \in DOMAIN tasks |->
        IF /\ tasks[p].user = u
           /\ u \in DOMAIN active_tasks
           /\ cancel_seen[p] = ""
           /\ Stage(tasks[p].pc) \in {"Pending", "Downloading", "Encoding", "Uploading"}
        THEN Stage(tasks[p].pc)
        ELSE cancel_seen[p]]

Init ==
    /\ active_tasks = <<>>
    /\ user_data = [u \in Users |-> [pending_video |-> None]]
    /\ tasks = <<>>
    /\ files = {}
    /\ now = 0
    /\ cancel_seen = <<>>

\* ------------------------------------------------------------ handlers
handle_video(u, file_name, file_size) ==
    /\ IF u \in DOMAIN active_tasks
       THEN UNCHANGED user_data
       ELSE IF TooLarge(file_size, size_limit(u))
       THEN UNCHANGED user_data
       ELSE user_data' = [user_data EXCEPT ![u].pending_video =
                       Some([file_name |-> file_name, file_size |-> file_size])]
    /\ UNCHANGED <<active_tasks, tasks, files, now, cancel_seen>>

handle_compression_callback(u, quality) ==
    /\ Len(tasks) < MaxTasks
    /\ IF user_data[u].pending_video = None
       THEN UNCHANGED <<active_tasks, tasks, cancel_seen>>
       ELSE /\ active_tasks' =
                 [v \in DOMAIN active_tasks \cup {u} |->
                    IF v = u
                    THEN [video_info |-> user_data[u].pending_video[1],
                          quality |-> quality,
                          canceled |-> FALSE]
                    ELSE active_tasks[v]]
            /\ tasks' = Append(tasks, NewTask(u))
            /\ cancel_seen' = Append(cancel_seen, "")
    /\ UNCHANGED <<user_data, files, now>>

\* What cancel_command answers: "canceled" (Ok) when the user has a registry
\* entry, "no active tasks" (NotFound) otherwise.
cancel_reply(u) == IF u \in DOMAIN active_tasks THEN "Ok" ELSE "NotFound"

\* cancel_command with a defect: the flag of every entry is raised.
cancel_commandAllUsers(u) ==
    /\ IF cancel_reply(u) = "Ok"
       THEN active_tasks' = [v \in DOMAIN active_tasks |->
                               [active_tasks[v] EXCEPT !.canceled = TRUE]]
       ELSE UNCHANGED active_tasks
    /\ UNCHANGED <<user_data, tasks, files, now>>

cancel_command(u) ==
    /\ IF cancel_reply(u) = "Ok"
       THEN active_tasks' = [active_tasks EXCEPT ![u].canceled = TRUE]
       ELSE UNCHANGED active_tasks
    /\ UNCHANGED <<user_data, tasks, files, now>>

Tick ==
    /\ now < MaxTime
    /\ now' = now + 1
    /\ UNCHANGED <<active_tasks, user_data, tasks, files, cancel_seen>>

\* ------------------------------------------- process_compression (pipeline)
\* A task's reports are the terminal texts it has handed to
\* edit_message_text ("completed", "canceled", "error"), in order.
St(t, fs, at) == [t |-> t, files |-> fs, at |-> at]

\* RemoveLoop with a defect: the loop forgets the output file.
RemoveLoopInputOnly(fs, i, o, fail) ==
    IF i \in fs /\ fail = "input" THEN [files |-> fs, ok |-> FALSE]
    ELSE [files |-> fs \ {i}, ok |-> TRUE]

\* for file_path in [input_path, output_path]: if exists: os.remove.
\* fail names the removal that raises, when it is attempted.
RemoveLoop(fs, i, o, fail) ==
    IF i \in fs /\ fail = "input" THEN [files |-> fs, ok |-> FALSE]
    ELSE IF o \in fs /\ fail = "output" THEN [files |-> fs \ {i}, ok |-> FALSE]
    ELSE [files |-> fs \ {i, o}, ok |-> TRUE]

\* The coroutine has ended: its frame (the locals) is gone; what it has sent
\* (reports) and the cleanup error it has logged stay.
Ended(t, exit, cleanup_error) ==
    [NewTask(t.user) EXCEPT !.pc = exit, !.reports = t.reports,
                            !.cleanup_error = cleanup_error]

\* The finally clause, then the coroutine ends; exit tells how the try
\* block was left (return, fall-through, except).
Finally(t, fs, at, exit, fail) ==
    LET rm == IF t.input_path = None
              THEN [files |-> fs, ok |-> FALSE]
              ELSE RemoveLoop(fs, t.input_path[1], t.output_path[1], fail)
    IN St(Ended(t, exit, ~rm.ok),
          rm.files,
          IF t.user \in DOMAIN at THEN DelTask(at, t.user) ELSE at)

\* Raise with a defect: the except clause does not send the error text.
RaiseSilently(t, fs, at, exc, fail) ==
    IF t.bound
    THEN St([t EXCEPT !.e = exc, !.pc = "edit_error"], fs, at)
    ELSE St(Ended([t EXCEPT !.e = exc], "Failed", TRUE), fs,
            IF t.user \in DOMAIN at THEN DelTask(at, t.user) ELSE at)

\* The except clause: bind e, then try to edit the status message.
Raise(t, fs, at, exc, fail) ==
    IF t.bound
    THEN St([t EXCEPT !.e = exc, !.pc = "edit_error",
                      !.reports = Append(@, "error")], fs, at)
    ELSE Finally([t EXCEPT !.e = exc], fs, at, "Failed", fail)

Step(p, r) ==
    /\ tasks' = [tasks EXCEPT ![p] = r.t]
    /\ files' = r.files
    /\ active_tasks' = r.at
    /\ cancel_seen' = [cancel_seen EXCEPT ![p] = IF r.t.pc \in Terminal THEN "" ELSE @]
    /\ UNCHANGED <<user_data, now>>

RmFail == {"none", "input", "output"}

\* Lines 291-304: read the registry entry, edit the status message.
Start(p, ok) ==
    LET t == tasks[p]
        t1 == [t EXCEPT !.bound = TRUE,
                        !.video_info = Some(active_tasks[t.user].video_info),
                        !.quality = active_tasks[t.user].quality]
    IN
    /\ t.pc = "start"
    /\ Step(p, IF t.user \notin DOMAIN active_tasks
               THEN Raise(t, files, active_tasks, "KeyError", "none")
               ELSE IF ok
               THEN St([t1 EXCEPT !.pc = "get_file"], files, active_tasks)
               ELSE Raise(t1, files, active_tasks, "EditFailed", "none"))

\* Lines 306-314: get_file returned; allocate the paths, start the download.
GetFileReturns(p, ok) ==
    LET t == tasks[p]
        name == t.video_info[1].file_name
    IN
    /\ t.pc = "get_file"
    /\ Step(p, IF ok
               THEN St([t EXCEPT !.input_path = Some(InputPath(t.user, now, name)),
                                 !.output_path = Some(OutputPath(t.user, now, name)),
                                 !.pc = "download"],
                       files, active_tasks)
               ELSE Raise(t, files, active_tasks, "FetchFailed", "none"))

\* Lines 314-336: download_to_drive returned (a failed download may leave a
\* partial file); cancellation check; the "Compressing" edit, whose text
\* needs COMPRESSION_PRESETS[quality].
DownloadReturns(p, ok, partial, rm_ok) ==
    LET t == tasks[p]
        i == t.input_path[1]
        fs1 == files \cup {i}
    IN
    /\ t.pc = "download"
    /\ Step(p,
         IF ~ok
         THEN Raise(t, IF partial THEN fs1 ELSE files, active_tasks, "FetchFailed", "none")
         ELSE IF t.user \notin DOMAIN active_tasks
         THEN Raise(t, fs1, active_tasks, "KeyError", "none")
         ELSE IF active_tasks[t.user].canceled
         THEN IF rm_ok
              THEN St([t EXCEPT !.pc = "edit_canceled",
                                !.reports = Append(@, "canceled")],
                      fs1 \ {i}, active_tasks)
              ELSE Raise(t, fs1, active_tasks, "OSError", "none")
         ELSE IF t.quality \notin DOMAIN COMPRESSION_PRESETS
         THEN Raise(t, fs1, active_tasks, "KeyError", "none")
         ELSE St([t EXCEPT !.pc = "edit_compressing"], fs1, active_tasks))

\* Lines 319-325 and 355-361: the "canceled" edit returned; del, return.
EditCanceledReturns(p, ok, fail) ==
    LET t == tasks[p] IN
    /\ t.pc = "edit_canceled"
    /\ Step(p,
         IF ~ok
         THEN Raise(t, files, active_tasks, "EditFailed", "none")
         ELSE IF t.user \notin DOMAIN active_tasks
         THEN Raise(t, files, active_tasks, "KeyError", "none")
         ELSE Finally(t, files, DelTask(active_tasks, t.user), "Canceled", fail))

\* EditCompressingReturns with a defect: when the edit fails the task goes
\* back and fetches the file again.
EditCompressingReturnsRetry(p, ok) ==
    LET t == tasks[p] IN
    /\ t.pc = "edit_compressing"
    /\ Step(p,
         IF ~ok
         THEN St([t EXCEPT !.pc = "get_file"], files, active_tasks)
         ELSE St([t EXCEPT !.pc = IF t.input_path[1] \in files
                                  THEN "encode" ELSE "encode_noinput"],
                 files, active_tasks))

\* Lines 338-346: hand compress_video to the executor; ffmpeg opens the
\* input, which a task of the same user may have removed.
EditCompressingReturns(p, ok) ==
    LET t == tasks[p] IN
    /\ t.pc = "edit_compressing"
    /\ Step(p,
         IF ~ok
         THEN Raise(t, files, active_tasks, "EditFailed", "none")
         ELSE St([t EXCEPT !.pc = IF t.input_path[1] \in files
                                  THEN "encode" ELSE "encode_noinput"],
                 files, active_tasks))

\* Lines 343-376: compress_video returned (a failed encode may leave a
\* partial output); cancellation check; size metrics; the "Uploading" edit.
EncodeReturns(p, ok, partial, fail) ==
    LET t == tasks[p]
        i == t.input_path[1]
        o == t.output_path[1]
        fs1 == files \cup {o}
        rm == RemoveLoop(fs1, i, o, fail)
    IN
    /\ t.pc \in {"encode", "encode_noinput"}
    /\ ok => t.pc = "encode"
    /\ Step(p,
         IF ~ok
         THEN Raise(t, IF partial THEN fs1 ELSE files, active_tasks, "EncodeFailed", "none")
         ELSE IF t.user \notin DOMAIN active_tasks
         THEN Raise(t, fs1, active_tasks, "KeyError", "none")
         ELSE IF active_tasks[t.user].canceled
         THEN IF rm.ok
              THEN St([t EXCEPT !.pc = "edit_canceled",
                                !.reports = Append(@, "canceled")],
                      rm.files, active_tasks)
              ELSE Raise(t, rm.files, active_tasks, "OSError", "none")
         ELSE IF t.video_info[1].file_size = 0
         THEN Raise(t, fs1, active_tasks, "ZeroDivisionError", "none")
         ELSE St([t EXCEPT !.pc = "edit_uploading"], fs1, active_tasks))

\* Lines 378-404: open the output, send_video, then the "completed" edit.
EditUploadingReturns(p, ok, sent) ==
    LET t == tasks[p] IN
    /\ t.pc = "edit_uploading"
    /\ Step(p,
         IF ~ok
         THEN Raise(t, files, active_tasks, "EditFailed", "none")
         ELSE IF t.output_path[1] \notin files
         THEN Raise(t, files, active_tasks, "OSError", "none")
         ELSE IF ~sent
         THEN Raise(t, files, active_tasks, "DeliverFailed", "none")
         ELSE St([t EXCEPT !.pc = "edit_completed",
                           !.reports = Append(@, "completed")],
                 files, active_tasks))

\* Lines 394-428: the "completed" edit returned.
EditCompletedReturns(p, ok, fail) ==
    LET t == tasks[p] IN
    /\ t.pc = "edit_completed"
    /\ Step(p, IF ok
               THEN Finally(t, files, active_tasks, "Completed", fail)
               ELSE Raise(t, files, active_tasks, "EditFailed", "none"))

\* Lines 408-428: whether the error edit went through or raised (swallowed
\* at line 414), the finally clause is next.
EditErrorReturns(p, fail) ==
    LET t == tasks[p] IN
    /\ t.pc = "edit_error"
    /\ Step(p, Finally(t, files, active_tasks, "Failed", fail))

process_compression(p) ==
    \/ \E ok \in BOOLEAN : Start(p, ok)
    \/ \E ok \in BOOLEAN : GetFileReturns(p, ok)
    \/ \E ok, partial, rm_ok \in BOOLEAN : DownloadReturns(p, ok, partial, rm_ok)
    \/ \E ok \in BOOLEAN, fail \in RmFail : EditCanceledReturns(p, ok, fail)
    \/ \E ok \in BOOLEAN : EditCompressingReturns(p, ok)
    \/ \E ok, partial \in BOOLEAN, fail \in RmFail : EncodeReturns(p, ok, partial, fail)
    \/ \E ok, sent \in BOOLEAN : EditUploadingReturns(p, ok, sent)
    \/ \E ok \in BOOLEAN, fail \in RmFail : EditCompletedReturns(p, ok, fail)
    \/ \E fail \in RmFail : EditErrorReturns(p, fail)

OtherSteps ==
    \/ \E u \in Users, n \in FileNames, s \in FileSizes : handle_video(u, n, s)
    \/ \E u \in Users, q \in QualityInputs : handle_compression_callback(u, q)
    \/ Tick
    \/ \E p \in DOMAIN tasks : process_compression(p)

Next ==
    \/ OtherSteps
    \/ \E u \in Users : cancel_command(u) /\ UNCHANGED cancel_seen

Spec == Init /\ [][Next]_vars

\* The same program, with every accepted /cancel observed.
NextObserved ==
    \/ OtherSteps
    \/ \E u \in Users : cancel_command(u) /\ cancel_seen' = SeeCancel(u)

SpecObserved == Init /\ [][NextObserved]_vars

\* ------------------------------------------------------------------ claims
Live(p) == tasks[p].pc \notin Terminal

LiveTasks(u) == {p \in DOMAIN tasks : tasks[p].user = u /\ Live(p)}

\* C1 (as claimed): in every reachable state every user has at most one
\* process_compression task that has not reached a terminal state.
C1_SingleFlight ==
    \A u \in Users : Cardinality(LiveTasks(u)) <= 1

\* C2 (as claimed): a submit for a user whose job has not reached a terminal
\* state is rejected: no step creates a task for that user or replaces the
\* user's registry entry while a task of the user is still running.
Admitted(u) ==
    /\ Len(tasks') = Len(tasks) + 1
    /\ tasks'[Len(tasks')].user = u

C2_SecondSubmitRejected ==
    [][\A u \in Users :
          LiveTasks(u) # {} /\ u \in DOMAIN active_tasks
             => /\ ~Admitted(u)
                /\ u \in DOMAIN active_tasks' =>
                      /\ active_tasks'[u].video_info = active_tasks[u].video_info
                      /\ active_tasks'[u].quality = active_tasks[u].quality
                      /\ active_tasks[u].canceled => active_tasks'[u].canceled]_vars

\* C3: no pending video, registry entry or task ever holds a video whose
\* declared size exceeds the size limit of its user: a too large video is
\* turned away by handle_video and leaves nothing behind.
C3_SizeGate ==
    /\ \A u \in Users :
          user_data[u].pending_video # None
             => ~(user_data[u].pending_video[1].file_size > size_limit(u))
    /\ \A u \in DOMAIN active_tasks :
          ~(active_tasks[u].video_info.file_size > size_limit(u))
    /\ \A p \in DOMAIN tasks :
          tasks[p].video_info # None
             => ~(tasks[p].video_info[1].file_size > size_limit(tasks[p].user))

\* C3 witness: a video of exactly the limit got through the gate and its
\* pipeline has finished, while no over-limit video has left a trace.
C3_Witness ==
    \E u \in Users, p \in DOMAIN tasks :
        /\ user_data[u].pending_video # None
        /\ user_data[u].pending_video[1].file_size = size_limit(u)
        /\ tasks[p].user = u
        /\ tasks[p].pc = "Completed"

\* C4 (as claimed): a preset key outside the preset table never gets into
\* the registry or into a task.
C4_UnknownPresetRejected ==
    /\ \A u \in DOMAIN active_tasks :
          active_tasks[u].quality \in DOMAIN COMPRESSION_PRESETS
    /\ \A p \in DOMAIN tasks :
          tasks[p].bound => tasks[p].quality \in DOMAIN COMPRESSION_PRESETS

\* A task stopped by a /cancel seen in stage: it is still in that stage, is
\* on the cancel path, or has failed; it has not gone on to the next stage.
StoppedFrom(p, stage) ==
    Stage(tasks[p].pc) \in {stage, "Canceling", "Failing"}

\* C5 (as claimed): a task whose user's /cancel was accepted while it was
\* Downloading never makes the encode call: it leaves Downloading only by
\* the cancel path (or by failing).
C5_CancelWhileDownloading ==
    \A p \in DOMAIN tasks :
        cancel_seen[p] = "Downloading" => StoppedFrom(p, "Downloading")

\* C6 (as claimed): a task whose user's /cancel was accepted while its encode
\* call was running never reaches Uploading: when the encode call returns it
\* goes down the cancel path (or fails), and send_video is never called.
C6_CancelWhileEncoding ==
    \A p \in DOMAIN tasks :
        cancel_seen[p] = "Encoding" => StoppedFrom(p, "Encoding")

\* Task p ends in this step.
Ends(p) == Live(p) /\ tasks'[p].pc \in Terminal

\* After the step, the scratch paths task p had allocated are not on disk.
PathsGone(p) ==
    tasks[p].input_path # None
       => /\ tasks[p].input_path[1] \notin files'
          /\ tasks[p].output_path[1] \notin files'

\* C7: whenever a task ends (Completed, Canceled or Failed, also when it
\* failed before it had allocated its paths), the registry has no entry for
\* its user, and if the deletions of its cleanup did not fail, neither its
\* input path nor its output path is on disk.
C7_CleanupOnEveryExit ==
    [][\A p \in DOMAIN tasks :
          Ends(p) => /\ tasks[p].user \notin DOMAIN active_tasks'
                     /\ ~tasks'[p].cleanup_error => PathsGone(p)]_vars

\* C7 witness: a task has run to Completed with its cleanup succeeding, and
\* nothing is left on disk or in the registry.
C7_Witness ==
    \E p \in DOMAIN tasks :
        /\ tasks[p].pc = "Completed"
        /\ ~tasks[p].cleanup_error
        /\ files = {}
        /\ active_tasks = <<>>

PipelineErrors == {"FetchFailed", "EncodeFailed", "DeliverFailed"}

\* A task in which the fetch, the encode call or the deliver call raised.
Crashed(p) == Live(p) /\ tasks[p].e \in PipelineErrors

\* C8 (as claimed): once the fetch, the encode call or the deliver call has
\* raised, the task runs no later stage, has reported the error, ends in
\* Failed, and when it has ended both paths are gone and the registry has no
\* entry for its user.
C8_FailureHandling_Claimed ==
    [][\A p \in DOMAIN tasks :
          Crashed(p) => /\ tasks[p].pc = "edit_error"
                        /\ tasks[p].reports = <<"error">>
                        /\ tasks'[p].pc \in {"edit_error", "Failed"}
                        /\ Ends(p) => /\ tasks[p].user \notin DOMAIN active_tasks'
                                      /\ PathsGone(p)]_vars

\* C8 (amended): as claimed, with both paths gone provided the deletions of
\* the cleanup did not fail.
C8_FailureHandling ==
    [][\A p \in DOMAIN tasks :
          Crashed(p) => /\ tasks[p].pc = "edit_error"
                        /\ tasks[p].reports = <<"error">>
                        /\ tasks'[p].pc \in {"edit_error", "Failed"}
                        /\ Ends(p) => /\ tasks[p].user \notin DOMAIN active_tasks'
                                      /\ ~tasks'[p].cleanup_error => PathsGone(p)]_vars

\* C8 witness: the encode call has raised leaving a partial output file; the
\* task has left the pipeline and handed the error text to the status edit.
C8_Witness ==
    \E p \in DOMAIN tasks :
        /\ tasks[p].pc = "edit_error"
        /\ tasks[p].e = "EncodeFailed"
        /\ tasks[p].output_path[1] \in files
        /\ tasks[p].user \in DOMAIN active_tasks

\* C9 (as claimed): a task that has ended has emitted exactly one terminal
\* message (completed, canceled or error).
C9_ExactlyOneReport ==
    \A p \in DOMAIN tasks :
        tasks[p].pc \in Terminal => Len(tasks[p].reports) = 1

\* C10 (as claimed): a failed status edit never aborts the pipeline: no task
\* is ever in its except clause because of an edit_message_text failure.
C10_ReportFailureIsolated ==
    \A p \in DOMAIN tasks : tasks[p].e # "EditFailed"

\* In this step the cancel flag of u's registry entry goes from false to true.
FlagRaised(u) ==
    /\ u \in DOMAIN active_tasks /\ ~active_tasks[u].canceled
    /\ u \in DOMAIN active_tasks' /\ active_tasks'[u].canceled

\* C11: cancel_command for a user without a registry entry answers NotFound
\* and changes nothing; for a user with an entry it answers Ok and leaves the
\* entry's flag true.  Any step that raises a flag changes nothing but that
\* flag: the entry's video and quality, every other entry, every task (its
\* stage and paths), the files and the pending videos stay as they were; the
\* step does not wait for a task (it is taken whatever the tasks are doing).
C11_CancelFrame ==
    [][\A u \in Users :
          /\ cancel_command(u) /\ cancel_reply(u) = "NotFound"
                => UNCHANGED <<active_tasks, user_data, tasks, files, now>>
          /\ cancel_command(u) /\ cancel_reply(u) = "Ok"
                => u \in DOMAIN active_tasks' /\ active_tasks'[u].canceled
          /\ FlagRaised(u)
                => /\ active_tasks' = [active_tasks EXCEPT ![u].canceled = TRUE]
                   /\ UNCHANGED <<user_data, tasks, files, now>>]_vars

\* C11 witness: both users have an entry, one is canceled and the other is
\* not, and the canceled user's task is still in its download.
C11_Witness ==
    \E u, v \in DOMAIN active_tasks, p \in DOMAIN tasks :
        /\ active_tasks[u].canceled /\ ~active_tasks[v].canceled
        /\ tasks[p].user = u /\ tasks[p].pc = "download"

\* Exceptions a task raises by itself, with every external call (Telegram,
\* ffmpeg, os.remove) having succeeded.
OwnErrors == {"KeyError", "ZeroDivisionError"}

\* C12 (as claimed): two tasks admitted for distinct users, each with a
\* preset of the table, both go on to Completed unless an external call
\* fails or a cancel is issued: neither of them is ever in its except clause
\* because of an exception of its own.
C12_Independence ==
    \A p, q \in DOMAIN tasks :
        /\ tasks[p].user # tasks[q].user
        /\ tasks[p].quality \in DOMAIN COMPRESSION_PRESETS
        => tasks[p].e \notin OwnErrors

\* C13 (as claimed): a task whose user's /cancel was accepted while it was
\* Pending (created, get_file not yet called) never calls get_file or
\* download_to_drive: it leaves Pending only by the cancel path (or by
\* failing).
C13_CancelWhilePending ==
    \A p \in DOMAIN tasks :
        cancel_seen[p] = "Pending" => StoppedFrom(p, "Pending")

\* C14 (as claimed): no two running tasks that have allocated their scratch
\* paths share an input path or an output path.
C14_UniquePaths ==
    \A p, q \in DOMAIN tasks :
        /\ p # q /\ Live(p) /\ Live(q)
        /\ tasks[p].input_path # None /\ tasks[q].input_path # None
        => /\ tasks[p].input_path # tasks[q].input_path
           /\ tasks[p].output_path # tasks[q].output_path

\* The pipeline order of the stages.
Rank(stage) ==
    CASE stage = "Pending" -> 0
      [] stage = "Downloading" -> 1
      [] stage = "Encoding" -> 2
      [] stage = "Uploading" -> 3
      [] stage = "Completed" -> 4

Pipeline == {"Pending", "Downloading", "Encoding", "Uploading", "Completed"}

\* One step of a task's stage: it stays, moves to the next stage of the
\* pipeline, or leaves the pipeline towards Canceled (the "canceled" edit in
\* flight, then Canceled) or Failed (the error edit in flight, then Failed).
StageStep(a, b) ==
    \/ a = b
    \/ a \in Pipeline /\ b \in Pipeline /\ Rank(b) = Rank(a) + 1
    \/ a \in Pipeline \ {"Completed"} /\ b \in {"Canceling", "Failing", "Failed"}
    \/ a = "Canceling" /\ b \in {"Canceled", "Failing"}
    \/ a = "Failing" /\ b = "Failed"

\* C15: every task is in exactly one stage; every step leaves the stage of
\* every task where it is, moves it one stage forward in the order Pending,
\* Downloading, Encoding, Uploading, Completed, or takes it out of the
\* pipeline to Canceled or Failed; no step moves a task back or out of a
\* terminal stage.
C15_StageOrder ==
    [][\A p \in DOMAIN tasks :
          /\ Stage(tasks[p].pc) \in Pipeline \cup {"Canceling", "Canceled", "Failing", "Failed"}
          /\ StageStep(Stage(tasks[p].pc), Stage(tasks'[p].pc))]_vars

\* C15 witness: one task has gone through every stage to Completed, another
\* has left the pipeline and ended Canceled.
C15_Witness ==
    \E p, q \in DOMAIN tasks :
        tasks[p].pc = "Completed" /\ tasks[q].pc = "Canceled"

\* C16 (as claimed): while a task of user u is running and the cancel flag
\* of u's registry entry is true, no step leaves u with an entry whose flag
\* is false: the running task's next cancellation check reads true.
C16_CancelFlagMonotonic ==
    [][\A u \in Users :
          /\ LiveTasks(u) # {}
          /\ u \in DOMAIN active_tasks /\ active_tasks[u].canceled
          /\ u \in DOMAIN active_tasks'
          => active_tasks'[u].canceled]_vars

\* C17 (as claimed): whenever a scratch file of a running task is on disk,
\* the registry has an entry for the task's user: no cleanup removes the
\* entry while files of a still-running task of that user remain.
C17_FilesImplyEntry ==
    \A p \in DOMAIN tasks :
        /\ Live(p) /\ tasks[p].input_path # None
        /\ {tasks[p].input_path[1], tasks[p].output_path[1]} \cap files # {}
        => tasks[p].user \in DOMAIN active_tasks

\* C18 (as claimed): a failing os.remove never turns a canceled job into a
\* Failed one: no task goes from its download or its encode call (where the
\* cancel path removes the files) to the except clause with an OSError.
C18_DeletionFailureHarmless ==
    [][\A p \in DOMAIN tasks :
          Stage(tasks[p].pc) \in {"Downloading", "Encoding"}
             => tasks'[p].e # "OSError"]_vars

\* C19 (as claimed): for every admitted declared size the size metrics are
\* computed without a division error: no task is ever in its except clause
\* because of a ZeroDivisionError.
C19_NoDivisionError ==
    \A p \in DOMAIN tasks : tasks[p].e # "ZeroDivisionError"

\* C20 (as claimed): while a task is Uploading (past the check of line 349)
\* a /cancel of its user is answered Ok, the registry entry being still
\* there, and has no effect: the task stays in Uploading, goes on to
\* Completed, or fails; it never takes the cancel path.
C20_CancelWhileUploading ==
    [][\A p \in DOMAIN tasks :
          Stage(tasks[p].pc) = "Uploading"
             => /\ cancel_reply(tasks[p].user) = "Ok"
                /\ Stage(tasks'[p].pc) \in {"Uploading", "Completed", "Failing", "Failed"}]_vars
====
